---- MODULE Spec2Model ----
(***************************************************************************)
(* NodeDiskCache: the cache index (_cacheItems), the size bookkeeping      *)
(* (_currentSize), the file-name counter, the per-entry expiration timers, *)
(* the volumeUpLimit cleaner and the facade operations, with the artifact  *)
(* store (fs / fs-extra) as an environment whose calls may fail.           *)
(*                                                                         *)
(* One step of the model is one turn of the event loop: the completion of  *)
(* one filesystem call (or the start of a call, a timer, a cleaner tick)   *)
(* followed by all synchronous code and promise continuations up to the    *)
(* next awaited filesystem call.                                           *)
(***************************************************************************)
EXTENDS Integers, Sequences, FiniteSets, TLC

\* ---- bounds of the model ----
MaxFiles == 2          \* cap on _fileNameIndex (number of cache objects ever created)
MaxLen == 2            \* cap on the length of an artifact grown by appends
MaxFaults == 1         \* cap on the number of filesystem calls that fail in one run

\* ---- configuration of the instance (constructor options) ----
upLimit == 2           \* options.volumeUpLimit
cleanAmount == 50      \* options.cleanAmount, in percent (0.5)
\* options.volumeUpLimitRate, in percent, of the instances constructed without
\* volumeUpLimit (0.5, and 1.5 which line 68 cuts down to 1)
Rates == {50, 150}
\* what diskusage.check may report: total and available
Totals == {4, 8}
Availables == {1, 2, 3}

\* ---- input domains ----
Keys == {"a", "b"}
Values == {<<1>>, <<2, 2>>}
Timeouts == {0, 2}
\* the keys whose writes are given a timeout or the refresh flag; the writes of
\* the other keys use the defaults of an instance constructed without options
Timed == {"a"}
Options(key) == IF key \in Timed THEN Timeouts \X BOOLEAN ELSE {<<0, FALSE>>}
Dirs == {"d"}          \* options.cacheDir; the instance modelled is the one on "d"
ProcIds == {1, 2}
FileNames == 0..(MaxFiles - 1)

VARIABLES
    cacheItems,     \* _cacheItems: the Map, as the sequence of its <<key, cache>> entries
    heap,           \* the CacheItem objects, addressed by their fileName
    currentSize,    \* _currentSize
    fileNameIndex,  \* _fileNameIndex
    disk,           \* the cache directory: fileName -> artifact
    procs,          \* the async calls in flight, each a stack of suspended frames
    overlap,        \* whether calls, timers and ticks may start while another is in flight
    cacheDirList,   \* NodeDiskCache._cacheDirList
    cleanerTimer,   \* _cleanerTimer: "none" (not constructed), "active", "cleared"
    live,           \* history: dir -> the instances constructed on it and not destroyed
    options,        \* the options the instance is constructed with: volumeUpLimit,
                    \*   volumeUpLimitRate (0: not given)
    faults,         \* history: the number of filesystem calls that have failed
    written,        \* history: key -> the value its last successful write stored
                    \*   (appending: the bytes the file then held), <<>> once the
                    \*   key is written again or leaves the Map
    grp,            \* history: key -> the keys of the last successful setGroup that
                    \*   wrote it, {} once one of them is written again
    last            \* history: the call that completed in the last step

vars == <<cacheItems, heap, currentSize, fileNameIndex, disk, procs, overlap, faults,
          written, grp, last, cacheDirList, cleanerTimer, live, options>>

\* what only the constructor and destroy change
static == <<cacheDirList, cleanerTimer, live, options>>

\* ------------------------------------------------------------------------
\* Timers (setTimeout / clearTimeout / Timeout.refresh)
\* ------------------------------------------------------------------------
NoTimer == [st |-> "none", dur |-> 0, left |-> 0]
DeadTimer == [st |-> "dead", dur |-> 0, left |-> 0]

\* setTimeout(cb, timeout)
SetTimeout(timeout) == [st |-> "armed", dur |-> timeout, left |-> timeout]

\* if (cache.timeout) clearTimeout(cache.timeout): the Timeout object stays in
\* the field, destroyed
ClearTimeout(t) == IF t.st = "none" THEN t ELSE DeadTimer

\* (variant: refresh does nothing)
RefreshNot(t) == t
\* cache.timeout.refresh(): restarts an active timer; a cleared one stays cleared
Refresh(t) == IF t.st = "armed" THEN [t EXCEPT !.left = t.dur] ELSE t

\* ------------------------------------------------------------------------
\* The Map and the CacheItem objects
\* ------------------------------------------------------------------------
MapHas(items, key) == \E n \in 1..Len(items) : items[n][1] = key

MapGet(items, key) ==
    LET n == CHOOSE n \in 1..Len(items) : items[n][1] = key IN items[n][2]

MapDelete(items, key) == SelectSeq(items, LAMBDA e : e[1] # key)

MapSet(items, key, cache) ==
    IF MapHas(items, key)
    THEN [n \in 1..Len(items) |-> IF items[n][1] = key THEN <<key, cache>> ELSE items[n]]
    ELSE Append(items, <<key, cache>>)

MapKeys(items) == {items[n][1] : n \in 1..Len(items)}

\* { fileName: this._fileNameIndex++, fileSize: 0 }; related undefined is the
\* empty list (delete loops over neither)
\* History kept with each object: gT the timeout of its last successful write,
\* gAge the time since that write or since the last read that refreshed its
\* timer
NewCache(key) ==
    [key |-> key, fileSize |-> 0, refreshTimeoutWhenGet |-> FALSE,
     related |-> <<>>, timeout |-> NoTimer,
     gT |-> 0, gAge |-> 0]

NoFile == [ex |-> FALSE, bytes |-> <<>>]
File(bytes) == [ex |-> TRUE, bytes |-> bytes]

\* ------------------------------------------------------------------------
\* Frames of a suspended async call
\* ------------------------------------------------------------------------
\* (existed, prev: history, whether the key was in the Map when _prepareWrite
\* began and the cache object as it was then)
NoFrame ==
    [kind |-> "", key |-> "", cache |-> 0, pc |-> "", i |-> 0, related |-> <<>>,
     value |-> <<>>, isAppend |-> FALSE, existed |-> FALSE, prev |-> NewCache(""),
     downTo |-> 0]

\* (must: history, the keys of the groups of the entries the call deleted)
IdleProc == [op |-> "idle", key |-> "", stk |-> <<>>, must |-> {}]

\* op, key: the call; res: "ok", "err" (it rejected or its error was logged),
\* "absent", "true", "false"; data: the bytes get resolved with; flag: the
\* cleaner found the size above upLimit, the read restarted a timer that had
\* run for some time; keys: must; existed, prev: as in the frame of the write
NoLast ==
    [op |-> "none", key |-> "", res |-> "", data |-> <<>>, flag |-> FALSE, keys |-> {},
     existed |-> FALSE, prev |-> NewCache("")]

Top(m) == m.stk[Len(m.stk)]
Pop(m) == [m EXCEPT !.stk = SubSeq(@, 1, Len(@) - 1)]
SetTop(m, f) == [m EXCEPT !.stk[Len(m.stk)] = f]

Quiescent == \A p \in ProcIds : procs[p].stk = <<>>

\* ------------------------------------------------------------------------
\* The synchronous code of the class, on a machine record
\*   m = [cacheItems, heap, currentSize, fileNameIndex, stk, must]
\* (stk: the frames of the call being run, innermost last)
\* ------------------------------------------------------------------------

\* (variant: the counter stays)
PostIncrementStays(index) == index
\* line 106: this._fileNameIndex++ (the value after the increment)
PostIncrement(index) == index + 1

\* (variant: the name drawn last is drawn again)
NewFileNameAgain(index) == IF index > 0 THEN index - 1 ELSE index
\* line 106: fileName: this._fileNameIndex++ (the value before the increment)
NewFileName(index) == index

\* (variant: the entry is put in the Map before the writer runs)
PrepareWriteBeginEager(m, w) ==
    LET existing == MapHas(m.cacheItems, w.key)
        cache == IF existing THEN MapGet(m.cacheItems, w.key) ELSE m.fileNameIndex
        h == IF existing THEN m.heap ELSE [m.heap EXCEPT ![cache] = NewCache(w.key)]
    IN  [m EXCEPT !.heap = [h EXCEPT ![cache].timeout = ClearTimeout(@)],
                  !.fileNameIndex = IF existing THEN @ ELSE @ + 1,
                  !.cacheItems = MapSet(@, w.key, cache),
                  !.stk = Append(@, [w EXCEPT !.cache = cache, !.pc = "writer",
                                              !.existed = existing,
                                              !.prev = h[cache]])]
\* _prepareWrite, lines 106-113: resolve the cache object (a new one draws a
\* file name), clear its timer, call the writer
PrepareWriteBegin(m, w) ==
    LET existing == MapHas(m.cacheItems, w.key)
        cache == IF existing THEN MapGet(m.cacheItems, w.key) ELSE NewFileName(m.fileNameIndex)
        h == IF existing THEN m.heap ELSE [m.heap EXCEPT ![cache] = NewCache(w.key)]
    IN  [m EXCEPT !.heap = [h EXCEPT ![cache].timeout = ClearTimeout(@)],
                  !.fileNameIndex = IF existing THEN @ ELSE PostIncrement(@),
                  !.stk = Append(@, [w EXCEPT !.cache = cache, !.pc = "writer",
                                              !.existed = existing,
                                              !.prev = h[cache]])]

\* (variant: the old fileSize is not taken off)
NewCurrentSizeAdds(size, oldFileSize, statSize) == size + statSize
\* lines 117-119: this._currentSize -= cache.fileSize; ... += status.size
NewCurrentSize(size, oldFileSize, statSize) == size - oldFileSize + statSize

\* line 123: if (timeout > 0) cache.timeout = setTimeout(...)
ArmTimeout(t, timeout) == IF timeout > 0 THEN SetTimeout(timeout) ELSE t

\* lines 125-126: this._cacheItems.delete(key); this._cacheItems.set(key, cache)
Reinsert(items, key, cache) == MapSet(MapDelete(items, key), key, cache)

\* _prepareWrite, lines 117-126, after stat returned statSize; the frame returns
PrepareWriteEnd(m, statSize, timeout, refreshTimeoutWhenGet) ==
    LET w == Top(m)
        c == m.heap[w.cache]
    IN  [m EXCEPT !.currentSize = NewCurrentSize(@, c.fileSize, statSize),
                  !.heap[w.cache] =
                      [c EXCEPT !.fileSize = statSize,
                                !.refreshTimeoutWhenGet = refreshTimeoutWhenGet,
                                !.related = w.related,
                                !.timeout = ArmTimeout(@, timeout),
                                !.gT = IF timeout > 0 THEN timeout ELSE 0,
                                !.gAge = 0],
                  !.cacheItems = Reinsert(@, w.key, w.cache),
                  !.stk = SubSeq(@, 1, Len(@) - 1)]

\* what the writer leaves at the path when it succeeds: writeFile / a piped
\* stream with flag 'a' or 'w' (lines 142, 145), or fs.move(from, path) (line 163)
\* (variant: the flag is always 'a')
WriterResultAppends(file, value, isAppend) ==
    IF file.ex THEN File(file.bytes \o value) ELSE File(value)
WriterResult(file, value, isAppend) ==
    IF isAppend /\ file.ex THEN File(file.bytes \o value) ELSE File(value)

\* fs-extra's move does not overwrite by default: it rejects when the
\* destination exists
WriterCanSucceed(file, from) == from => ~file.ex

\* what a failing writer may leave at the path: nothing written yet, or the
\* file opened (created, truncated under flag 'w') and no byte written
WriterPartial(file, isAppend, from) ==
    IF from THEN file
    ELSE IF isAppend /\ file.ex THEN file
    ELSE File(<<>>)

\* setGroup, line 182: items.map(item => item.key)
Related(items) == [n \in 1..Len(items) |-> items[n].key]

\* (variant: the item's own key is left out)
RelatedOfOthers(related, i) ==
    [n \in 1..(Len(related) - 1) |-> IF n < i THEN related[n] ELSE related[n + 1]]
\* lines 186, 188: the one array related is passed with every item
RelatedOf(related, i) == related

\* (variant: related is not passed on)
WriteFrameAlone(key, related) ==
    [NoFrame EXCEPT !.kind = "write", !.key = key]
\* the call of set / move for one item of setGroup (lines 185-188) or for a
\* facade call (lines 140, 163). The other arguments of the call are drawn
\* where _prepareWrite first reads them: value, isAppend and from when the
\* writer runs, timeout and refreshTimeoutWhenGet after stat
WriteFrame(key, related) ==
    [NoFrame EXCEPT !.kind = "write", !.key = key, !.related = related]

\* (variant: the related keys are not followed)
DeleteBeginAlone(m, key, cache) ==
    [m EXCEPT !.cacheItems = MapDelete(@, key),
              !.heap[cache].timeout = ClearTimeout(@),
              !.stk = Append(@, [NoFrame EXCEPT !.kind = "delete", !.key = key,
                                                !.cache = cache, !.pc = "related",
                                                !.i = 1])]
\* delete, lines 240-242, for a cache object that is there
DeleteBegin(m, key, cache) ==
    [m EXCEPT !.cacheItems = MapDelete(@, key),
              !.heap[cache].timeout = ClearTimeout(@),
              !.stk = Append(@, [NoFrame EXCEPT !.kind = "delete", !.key = key,
                                                !.cache = cache, !.pc = "related",
                                                !.i = 1,
                                                !.related = m.heap[cache].related])]

\* the cleaner's target, lines 50-51: upLimit * (1 - cleanAmount), times 100
downTo == upLimit * (100 - (IF cleanAmount < 100 THEN cleanAmount ELSE 100))

\* (variant: the sweep stops at upLimit)
AboveDownToUpLimit(size) == size > upLimit
\* line 57: this._currentSize > downTo
AboveDownTo(size) == size * 100 > downTo

\* line 55: this._currentSize > upLimit
AboveUpLimit(size) == size > upLimit

\* (variant: the decrement is lost)
DecrementLost(size, fileSize) == size
\* line 250 / 264: this._currentSize -= cache.fileSize
Decrement(size, fileSize) == size - fileSize

\* history: the call deletes the entry of key, whose group is to go with it
Note(m, key) == [m EXCEPT !.must = @ \cup grp[key]]

\* lines 68-69: upLimitRate = Math.min(volumeUpLimitRate, 1), in percent
UpLimitRate(rate) == IF rate < 100 THEN rate ELSE 100

\* (variant: <= for <)
BelowDownLimitOrAt(available, total, rate) ==
    available * 100 <= total * (100 - UpLimitRate(rate))
\* line 77: usage.available / usage.total < downLimitRate, times 100 * total
BelowDownLimit(available, total, rate) ==
    available * 100 < total * (100 - UpLimitRate(rate))

\* line 78: downTo = this._currentSize - usage.total * upLimitRate * cleanAmount,
\* times 10000
RateDownTo(size, total, rate) ==
    size * 10000 - total * UpLimitRate(rate)
                         * (IF cleanAmount < 100 THEN cleanAmount ELSE 100)

\* line 80: this._currentSize > downTo
AboveRateDownTo(size, scaled) == size * 10000 > scaled

RECURSIVE Return(_), DeleteLoop(_), SweepLoop(_), EmptyLoop(_), RateLoop(_)

\* delete, lines 244-249: the loop over _cache.related, up to the await of
\* fs.remove; delete(item) of an absent key returns at once
DeleteLoop(m) ==
    LET f == Top(m) IN
    IF f.i > Len(f.related)
    THEN SetTop(m, [f EXCEPT !.pc = "remove"])
    ELSE LET item == f.related[f.i] IN
         IF MapHas(m.cacheItems, item)
         THEN DeleteLoop(DeleteBegin(m, item, MapGet(m.cacheItems, item)))
         ELSE DeleteLoop(SetTop(m, [f EXCEPT !.i = @ + 1]))

\* the cleaner's loop, lines 56-61: the Map iterator is at the first entry
\* still in the Map (every entry it passed was deleted, new ones are appended)
SweepLoop(m) ==
    IF m.cacheItems # <<>> /\ AboveDownTo(m.currentSize)
    THEN DeleteLoop(DeleteBegin(Note(m, m.cacheItems[1][1]),
                                m.cacheItems[1][1], m.cacheItems[1][2]))
    ELSE Return(Pop(m))

\* the rate cleaner's loop, lines 79-84, with the downTo of its frame
RateLoop(m) ==
    IF m.cacheItems # <<>> /\ AboveRateDownTo(m.currentSize, Top(m).downTo)
    THEN DeleteLoop(DeleteBegin(Note(m, m.cacheItems[1][1]),
                                m.cacheItems[1][1], m.cacheItems[1][2]))
    ELSE Return(Pop(m))

\* empty, lines 258-263: next entry of the Map, up to the await of fs.remove
EmptyLoop(m) ==
    IF m.cacheItems # <<>>
    THEN LET key == m.cacheItems[1][1]
             cache == m.cacheItems[1][2]
         IN  [m EXCEPT !.cacheItems = MapDelete(@, key),
                       !.heap[cache].timeout = ClearTimeout(@),
                       !.stk[Len(m.stk)] = [Top(m) EXCEPT !.key = key, !.cache = cache,
                                                          !.pc = "remove"]]
    ELSE Return(Pop(m))

\* the awaited call returned: its caller goes on
Return(m) ==
    IF m.stk = <<>> THEN m
    ELSE LET f == Top(m) IN
         CASE f.kind = "setGroup" ->
                IF f.i < Len(f.related)
                THEN PrepareWriteBegin(SetTop(m, [f EXCEPT !.i = @ + 1]),
                                       WriteFrame(f.related[f.i + 1],
                                                  RelatedOf(f.related, f.i + 1)))
                ELSE Return(Pop(m))
           [] f.kind = "delete" -> DeleteLoop(SetTop(m, [f EXCEPT !.i = @ + 1]))
           [] f.kind = "cleaner" -> SweepLoop(m)
           [] f.kind = "rate" -> RateLoop(m)
           [] OTHER -> m

\* ------------------------------------------------------------------------
\* State, and the bookkeeping of a step
\* ------------------------------------------------------------------------
Init ==
    /\ cacheItems = <<>>
    /\ heap = [f \in FileNames |-> NewCache("")]
    /\ currentSize = 0
    /\ fileNameIndex = 0
    /\ disk \in {[f \in FileNames |-> NoFile],  \* what the directory held before
                 [f \in FileNames |-> IF f = 0 THEN File(<<>>) ELSE NoFile]}
    /\ cacheDirList = {}
    /\ cleanerTimer = "none"
    /\ live = [dir \in Dirs |-> 0]
    /\ options = [volumeUpLimit |-> upLimit, volumeUpLimitRate |-> 0]
    /\ procs = [p \in ProcIds |-> IdleProc]
    /\ overlap = FALSE
    /\ faults = 0
    /\ written = [k \in Keys |-> <<>>]
    /\ grp = [k \in Keys |-> {}]
    /\ last = NoLast

Idle(p) == procs[p].stk = <<>>
FreeProc == CHOOSE p \in ProcIds : Idle(p) /\ \A q \in ProcIds : q < p => ~Idle(q)
CanStart ==
    /\ cleanerTimer # "none"
    /\ IF overlap THEN \E p \in ProcIds : Idle(p) ELSE Quiescent

\* a facade call may start: the instance is constructed, and it is not used
\* any more once destroy() was called
CanCall == CanStart /\ cleanerTimer = "active"

Mach(p) ==
    [cacheItems |-> cacheItems, heap |-> heap, currentSize |-> currentSize,
     fileNameIndex |-> fileNameIndex, stk |-> procs[p].stk, must |-> procs[p].must]

TopOf(p) == procs[p].stk[Len(procs[p].stk)]
At(p, kind, pc) == ~Idle(p) /\ TopOf(p).kind = kind /\ TopOf(p).pc = pc

Done(op, key, res) == [NoLast EXCEPT !.op = op, !.key = key, !.res = res]

\* a call of set / move for key is in flight
Writing(ps, key) ==
    \E p \in ProcIds : \E n \in 1..Len(ps[p].stk) :
        ps[p].stk[n].kind = "write" /\ ps[p].stk[n].key = key

\* history, after a step that leaves the Map items and the calls ps, in which
\* the write of frame w returned (NoFrame: none) and the setGroup of keys
\* resolved (<<>>: none)
WrittenAfter(items, ps, w, d) ==
    [k \in Keys |->
        IF ~MapHas(items, k) \/ Writing(ps, k) THEN <<>>
        ELSE IF w.kind = "write" /\ w.key = k
             THEN (IF w.isAppend THEN d[w.cache].bytes ELSE w.value)
        ELSE written[k]]

GrpAfter(items, ps, keys) ==
    LET batch == {keys[n] : n \in 1..Len(keys)}
        g == [k \in Keys |-> IF k \in batch THEN batch ELSE grp[k]]
    IN  [k \in Keys |->
            IF ~MapHas(items, k) \/ (\E j \in g[k] : Writing(ps, j)) THEN {} ELSE g[k]]

\* cache objects nothing refers to any more are forgotten
Referenced(h, items, ps, f) ==
    \/ \E n \in 1..Len(items) : items[n][2] = f
    \/ h[f].timeout.st = "armed"
    \/ \E p \in ProcIds : \E n \in 1..Len(ps[p].stk) :
          /\ ps[p].stk[n].kind \in {"write", "delete", "empty", "get"}
          /\ ps[p].stk[n].cache = f

Collect(h, items, ps) ==
    [f \in FileNames |-> IF Referenced(h, items, ps, f) THEN h[f] ELSE NewCache("")]

\* an artifact no cache object names any more is never read or written again
\* (file names are not reused): only its presence is kept
Orphans(d, h, items, ps) ==
    [f \in FileNames |->
        IF d[f].ex /\ ~Referenced(h, items, ps, f) THEN File(<<>>) ELSE d[f]]

\* file names the setGroup calls in flight may still draw
Pending ==
    LET left(p) == IF ~Idle(p) /\ procs[p].stk[1].kind = "setGroup"
                   THEN Len(procs[p].stk[1].related) - procs[p].stk[1].i ELSE 0
    IN  left(1) + left(2)

\* the step of proc p leaves the machine m; when its stack is empty the call
\* (op, key) is over and done is what it reports
Commit(p, op, key, m, d, done) ==
    LET ps == [procs EXCEPT ![p] = IF m.stk = <<>> THEN IdleProc
                                   ELSE [op |-> op, key |-> key, stk |-> m.stk,
                                         must |-> m.must]]
        w == IF At(p, "write", "stat") /\ done.res = "ok" THEN TopOf(p) ELSE NoFrame
        keys == IF m.stk = <<>> /\ op = "setGroup" /\ done.res = "ok"
                THEN procs[p].stk[1].related ELSE <<>>
    IN  /\ cacheItems' = m.cacheItems
        /\ heap' = Collect(m.heap, m.cacheItems, ps)
        /\ written' = WrittenAfter(m.cacheItems, ps, w, d)
        /\ grp' = GrpAfter(m.cacheItems, ps, keys)
        /\ currentSize' = m.currentSize
        /\ fileNameIndex' = m.fileNameIndex
        /\ disk' = Orphans(d, m.heap, m.cacheItems, ps)
        /\ procs' = ps
        /\ last' = IF m.stk = <<>> THEN [done EXCEPT !.keys = m.must] ELSE NoLast

Start(frames) == [Mach(FreeProc) EXCEPT !.stk = frames]

\* ------------------------------------------------------------------------
\* The facade calls
\* ------------------------------------------------------------------------
CanDraw(need) == fileNameIndex + Pending + need <= MaxFiles
\* the file names a setGroup of keys may draw: when calls overlap a key that is
\* there now may be gone when its item is written
Need(keys) == IF overlap THEN Cardinality(keys) ELSE Cardinality(keys \ MapKeys(cacheItems))
\* line 106: a key that is not in the Map draws a file name at once
Draws(key) == IF MapHas(cacheItems, key) THEN 0 ELSE 1

\* set(key, ...), lines 138-151, up to the await of the writer
Set(key) ==
    /\ CanCall
    /\ CanDraw(Draws(key))
    /\ Commit(FreeProc, "set", key,
              PrepareWriteBegin(Start(<<>>), WriteFrame(key, <<>>)), disk, NoLast)
    /\ UNCHANGED <<overlap, faults, static>>

\* move(key, from, ...), lines 161-164, up to the await of fs.move
Move(key) ==
    /\ CanCall
    /\ CanDraw(Draws(key))
    /\ Commit(FreeProc, "move", key,
              PrepareWriteBegin(Start(<<>>), WriteFrame(key, <<>>)), disk, NoLast)
    /\ UNCHANGED <<overlap, faults, static>>

\* setGroup(items), lines 178-190, up to the await of the first writer. The
\* frame keeps related, whose i-th key is the key of the i-th item
GroupFrame(items) == [NoFrame EXCEPT !.kind = "setGroup", !.related = Related(items)]

SetGroup(items) ==
    /\ CanCall
    /\ CanDraw(Need({items[n].key : n \in 1..Len(items)}))
    /\ Commit(FreeProc, "setGroup", "", Return(Start(<<GroupFrame(items)>>)),
              disk, Done("setGroup", "", "ok"))
    /\ UNCHANGED <<overlap, faults, static>>

\* which writer the call in flight runs: set's (lines 141-149) or move's (163)
WriterOf(p, isAppend, from) ==
    /\ procs[p].op = "set" => ~from
    /\ procs[p].op = "move" => from
    /\ from => ~isAppend
FitsAppend(file, value, isAppend) ==
    (isAppend /\ file.ex) => Len(file.bytes) + Len(value) <= MaxLen

\* the writer's filesystem call completes (line 113)
Writer(p, value, isAppend, from) ==
    /\ At(p, "write", "writer")
    /\ WriterOf(p, isAppend, from)
    /\ FitsAppend(disk[TopOf(p).cache], value, isAppend)
    /\ WriterCanSucceed(disk[TopOf(p).cache], from)
    /\ Commit(p, procs[p].op, procs[p].key,
              SetTop(Mach(p), [TopOf(p) EXCEPT !.pc = "stat", !.value = value,
                                               !.isAppend = isAppend]),
              [disk EXCEPT ![TopOf(p).cache] = WriterResult(@, value, isAppend)],
              NoLast)
    /\ UNCHANGED <<overlap, faults, static>>

\* an exception leaves _prepareWrite, set / move and setGroup: the call rejects
Reject(p, d) ==
    Commit(p, procs[p].op, procs[p].key, [Mach(p) EXCEPT !.stk = <<>>], d,
           [Done(procs[p].op, procs[p].key, "err") EXCEPT
               !.existed = TopOf(p).existed, !.prev = TopOf(p).prev])

\* the writer rejects (a move onto an existing artifact always does)
WriterFail(p, isAppend, from, partial) ==
    /\ At(p, "write", "writer")
    /\ WriterOf(p, isAppend, from)
    /\ Reject(p, IF partial
                 THEN [disk EXCEPT ![TopOf(p).cache] = WriterPartial(@, isAppend, from)]
                 ELSE disk)
    /\ faults < MaxFaults \/ ~WriterCanSucceed(disk[TopOf(p).cache], from)
    /\ faults' = IF faults < MaxFaults THEN faults + 1 ELSE faults
    /\ UNCHANGED <<overlap, static>>

\* fs.promises.stat(filePath) returns (line 116); lines 117-126 run
Stat(p, timeout, refreshTimeoutWhenGet) ==
    /\ At(p, "write", "stat")
    /\ <<timeout, refreshTimeoutWhenGet>> \in Options(TopOf(p).key)
    /\ disk[TopOf(p).cache].ex
    /\ Commit(p, procs[p].op, procs[p].key,
              Return(PrepareWriteEnd(Mach(p), Len(disk[TopOf(p).cache].bytes),
                                     timeout, refreshTimeoutWhenGet)),
              disk, [Done(procs[p].op, procs[p].key, "ok") EXCEPT
                        !.existed = TopOf(p).existed])
    /\ UNCHANGED <<overlap, faults, static>>

\* fs.promises.stat rejects (it always does when the file is not there any more)
StatFail(p) ==
    /\ At(p, "write", "stat")
    /\ Reject(p, disk)
    /\ faults < MaxFaults \/ ~disk[TopOf(p).cache].ex
    /\ faults' = IF faults < MaxFaults THEN faults + 1 ELSE faults
    /\ UNCHANGED <<overlap, static>>

\* (variant: the refresh flag is not looked at)
TouchAlways(m, key) ==
    LET cache == MapGet(m.cacheItems, key)
        c == m.heap[cache]
    IN  IF c.timeout.st # "none"
        THEN [m EXCEPT !.heap[cache].timeout = Refresh(@),
                       !.cacheItems = Reinsert(@, key, cache)]
        ELSE m
\* get / getStream, lines 198-203 and 216-221
Touch(m, key) ==
    LET cache == MapGet(m.cacheItems, key)
        c == m.heap[cache]
    IN  IF c.refreshTimeoutWhenGet /\ c.timeout.st # "none"
        THEN [m EXCEPT !.heap[cache].timeout = Refresh(@),
                       !.cacheItems = Reinsert(@, key, cache)]
        ELSE m

\* the read restarts a timer that has run for some time
Restarts(key) ==
    LET c == heap[MapGet(cacheItems, key)]
    IN  c.refreshTimeoutWhenGet /\ c.timeout.st = "armed" /\ c.timeout.left < c.timeout.dur

\* history of a read of key
Read(m, key) ==
    LET cache == MapGet(m.cacheItems, key)
        c == m.heap[cache]
    IN  IF c.refreshTimeoutWhenGet /\ c.timeout.st = "armed"
        THEN [m EXCEPT !.heap[cache].gAge = 0]
        ELSE m

\* get(key), lines 195-208
Get(key) ==
    /\ CanCall
    /\ IF MapHas(cacheItems, key)
       THEN Commit(FreeProc, "get", key,
                   [Touch(Read(Start(<<>>), key), key) EXCEPT
                       !.stk = <<[NoFrame EXCEPT !.kind = "get", !.key = key,
                                                 !.cache = MapGet(cacheItems, key),
                                                 !.pc = "readFile",
                                                 !.i = IF Restarts(key) THEN 1 ELSE 0]>>],
                   disk, NoLast)
       ELSE /\ last' = Done("get", key, "absent")
            /\ UNCHANGED <<cacheItems, heap, currentSize, fileNameIndex, procs, disk,
                         written, grp>>
    /\ UNCHANGED <<overlap, faults, static>>

\* fs.readFile resolves with the bytes of the artifact (line 205)
ReadFile(p) ==
    /\ At(p, "get", "readFile")
    /\ disk[TopOf(p).cache].ex
    /\ Commit(p, "get", procs[p].key, Pop(Mach(p)), disk,
              [Done("get", procs[p].key, "ok") EXCEPT
                  !.data = disk[TopOf(p).cache].bytes, !.flag = (TopOf(p).i = 1)])
    /\ UNCHANGED <<overlap, faults, static>>

ReadFileFail(p) ==
    /\ At(p, "get", "readFile")
    /\ Reject(p, disk)
    /\ faults < MaxFaults
    /\ faults' = faults + 1
    /\ UNCHANGED <<overlap, static>>

\* getStream(key), lines 213-226: the stream is returned, nothing is awaited
GetStream(key) ==
    /\ CanCall
    /\ IF MapHas(cacheItems, key)
       THEN Commit(FreeProc, "getStream", key, Touch(Read(Start(<<>>), key), key), disk,
                   [Done("getStream", key, "ok") EXCEPT !.flag = Restarts(key)])
       ELSE /\ last' = Done("getStream", key, "absent")
            /\ UNCHANGED <<cacheItems, heap, currentSize, fileNameIndex, procs, disk,
                         written, grp>>
    /\ UNCHANGED <<overlap, faults, static>>

\* has(key), lines 231-233
Has(key) ==
    /\ CanCall
    /\ last' = Done("has", key, IF MapHas(cacheItems, key) THEN "true" ELSE "false")
    /\ UNCHANGED <<cacheItems, heap, currentSize, fileNameIndex, procs, disk,
                   overlap, faults, written, grp, static>>

\* delete(key), lines 239-252
Delete(key) ==
    /\ CanCall
    /\ IF MapHas(cacheItems, key)
       THEN Commit(FreeProc, "delete", key,
                   DeleteLoop(DeleteBegin(Note(Start(<<>>), key), key,
                                          MapGet(cacheItems, key))),
                   disk, NoLast)
       ELSE /\ last' = Done("delete", key, "ok")
            /\ UNCHANGED <<cacheItems, heap, currentSize, fileNameIndex, procs, disk,
                         written, grp>>
    /\ UNCHANGED <<overlap, faults, static>>

\* empty(), lines 257-269
Empty ==
    /\ CanCall
    /\ Commit(FreeProc, "empty", "",
              EmptyLoop(Start(<<[NoFrame EXCEPT !.kind = "empty"]>>)), disk,
              Done("empty", "", "ok"))
    /\ UNCHANGED <<overlap, faults, static>>

\* (variant: the interval is left running)
ClearIntervalNot(t) == t
\* line 275: clearInterval(this._cleanerTimer)
ClearInterval(t) == "cleared"

\* destroy(), lines 274-277: clearInterval(this._cleanerTimer); await this.empty()
Destroy ==
    /\ CanCall
    /\ Commit(FreeProc, "destroy", "",
              EmptyLoop(Start(<<[NoFrame EXCEPT !.kind = "empty"]>>)), disk,
              Done("destroy", "", "ok"))
    /\ cleanerTimer' = ClearInterval(cleanerTimer)
    /\ live' = [live EXCEPT !["d"] = @ - 1]
    /\ UNCHANGED <<overlap, faults, cacheDirList, options>>

\* (variant: the registry is not consulted)
RegisteredNever(list, dir) == FALSE
\* line 43: DiskCache._cacheDirList.has(this._cacheDir)
Registered(list, dir) == dir \in list

\* new NodeDiskCache({cacheDir: dir, volumeUpLimit: upLimit, ...}), lines 40-98:
\* it throws for a directory of the registry; else the directory is emptied
\* and registered, and the cleaner's interval starts. Of the instances so
\* constructed the first on "d" is the one modelled
Construct(dir) ==
    /\ Quiescent \/ overlap
    /\ IF Registered(cacheDirList, dir)
       THEN /\ last' = Done("new", dir, "err")
            /\ UNCHANGED <<disk, static>>
       ELSE /\ last' = Done("new", dir, "ok")
            /\ disk' = [f \in FileNames |-> NoFile]
            /\ cacheDirList' = cacheDirList \cup {dir}
            /\ cleanerTimer' = IF cleanerTimer = "none" THEN "active" ELSE cleanerTimer
            /\ live' = [live EXCEPT ![dir] = @ + 1]
            /\ UNCHANGED options
    /\ UNCHANGED <<cacheItems, heap, currentSize, fileNameIndex, procs, overlap, faults,
                   written, grp>>

\* (variant: the artifact is left in the directory)
FsRemoveNot(d, f) == d
\* line 249 / 263: fs.remove(path.join(this._cacheDir, fileName))
FsRemove(d, f) == [d EXCEPT ![f] = NoFile]

\* fs.remove resolves (line 249 / 263), the size is decremented (line 250 / 264)
Remove(p) ==
    /\ ~Idle(p)
    /\ TopOf(p).pc = "remove"
    /\ LET m == [Mach(p) EXCEPT
                    !.currentSize = Decrement(@, heap[TopOf(p).cache].fileSize)]
           done == [Done(procs[p].op, procs[p].key, "ok") EXCEPT
                       !.flag = (procs[p].op = "cleaner")]
       IN  Commit(p, procs[p].op, procs[p].key,
                  IF TopOf(p).kind = "empty" THEN EmptyLoop(m) ELSE Return(Pop(m)),
                  FsRemove(disk, TopOf(p).cache), done)
    /\ UNCHANGED <<overlap, faults, static>>

\* fs.remove rejects: empty logs it and goes on (lines 265-267); delete throws,
\* through every delete that awaits it, to the caller, the timer's catch
\* (line 123) or the cleaner's catch (lines 63-65)
RemoveFail(p) ==
    /\ ~Idle(p)
    /\ TopOf(p).pc = "remove"
    /\ IF TopOf(p).kind = "empty"
       THEN Commit(p, procs[p].op, "", EmptyLoop(Mach(p)), disk,
                   Done(procs[p].op, "", "ok"))
       ELSE Reject(p, disk)
    /\ faults < MaxFaults
    /\ faults' = faults + 1
    /\ UNCHANGED <<overlap, static>>

\* ------------------------------------------------------------------------
\* Timers and the cleaner
\* ------------------------------------------------------------------------

\* the callback of line 123: this.delete(key, cache)
TimerFire(cache) ==
    /\ CanStart
    /\ heap[cache].timeout.st = "armed"
    /\ heap[cache].timeout.left = 0
    /\ Commit(FreeProc, "timer", heap[cache].key,
              DeleteLoop(DeleteBegin(Note(Start(<<>>), heap[cache].key),
                                     heap[cache].key, cache)), disk,
              NoLast)
    /\ UNCHANGED <<overlap, faults, static>>

\* one unit of time passes; a timer that is due fires before more time passes
Elapse ==
    /\ overlap \/ Quiescent
    /\ \E f \in FileNames : heap[f].timeout.st = "armed"
    /\ \A f \in FileNames : heap[f].timeout.st = "armed" => heap[f].timeout.left > 0
    /\ heap' = [f \in FileNames |->
                   [heap[f] EXCEPT
                       !.timeout.left = IF heap[f].timeout.st = "armed" THEN @ - 1 ELSE @,
                       !.gAge = IF @ < heap[f].gT THEN @ + 1 ELSE @]]
    /\ last' = NoLast
    /\ UNCHANGED <<cacheItems, currentSize, fileNameIndex, disk, procs, overlap, faults,
                   written, grp, static>>

\* the setInterval callback of the volumeUpLimit cleaner, lines 53-66
Cleaner ==
    /\ CanStart
    /\ cleanerTimer = "active"
    /\ options.volumeUpLimit > 0
    /\ IF AboveUpLimit(currentSize)
       THEN Commit(FreeProc, "cleaner", "",
                   SweepLoop(Start(<<[NoFrame EXCEPT !.kind = "cleaner"]>>)), disk,
                   [Done("cleaner", "", "ok") EXCEPT !.flag = TRUE])
       ELSE /\ last' = Done("cleaner", "", "ok")
            /\ UNCHANGED <<cacheItems, heap, currentSize, fileNameIndex, procs, disk,
                         written, grp>>
    /\ UNCHANGED <<overlap, faults, static>>

\* the setInterval callback of the volumeUpLimitRate cleaner, lines 72-92, up
\* to the await of diskusage.check
RateCleaner ==
    /\ CanStart
    /\ cleanerTimer = "active"
    /\ options.volumeUpLimit = 0 /\ options.volumeUpLimitRate > 0
    /\ Commit(FreeProc, "rate", "",
              Start(<<[NoFrame EXCEPT !.kind = "rate", !.pc = "probe"]>>), disk, NoLast)
    /\ UNCHANGED <<overlap, faults, static>>

\* diskusage.check resolves (line 74); lines 77-84 run up to the first await
\* (value, data: history, what the probe reported)
Probe(p, available, total) ==
    /\ At(p, "rate", "probe")
    /\ available <= total
    /\ LET usage == <<available, total>>
           done == [Done("rate", "", "ok") EXCEPT !.data = usage]
       IN  IF BelowDownLimit(available, total, options.volumeUpLimitRate)
           THEN Commit(p, "rate", "",
                       RateLoop(SetTop(Mach(p),
                           [TopOf(p) EXCEPT
                               !.pc = "sweep", !.value = usage,
                               !.downTo = RateDownTo(currentSize, total,
                                                     options.volumeUpLimitRate)])),
                       disk, [done EXCEPT !.flag = TRUE])
           ELSE Commit(p, "rate", "", Pop(Mach(p)), disk, done)
    /\ UNCHANGED <<overlap, faults, static>>

\* diskusage.check rejects: the outer catch logs it (lines 89-91)
ProbeFail(p) ==
    /\ At(p, "rate", "probe")
    /\ Commit(p, "rate", "", Pop(Mach(p)), disk, Done("rate", "", "err"))
    /\ faults < MaxFaults
    /\ faults' = faults + 1
    /\ UNCHANGED <<overlap, static>>

\* ------------------------------------------------------------------------
\* Inputs and the specification
\* ------------------------------------------------------------------------
\* the items of a setGroup call, by their keys (their other fields are drawn
\* when the item is written)
Batches == {<<[key |-> "a"], [key |-> "b"]>>}

Next ==
    \/ \E key \in Keys : Set(key)
    \/ \E key \in Keys : Move(key)
    \/ \E items \in Batches : SetGroup(items)
    \/ \E key \in Keys : Get(key)
    \/ \E key \in Keys : GetStream(key)
    \/ \E key \in Keys : Has(key)
    \/ \E key \in Keys : Delete(key)
    \/ Empty
    \/ Destroy
    \/ \E dir \in Dirs : Construct(dir)
    \/ Cleaner
    \/ Elapse
    \/ \E cache \in FileNames : TimerFire(cache)
    \/ \E p \in ProcIds, value \in Values, isAppend \in BOOLEAN, from \in BOOLEAN :
            Writer(p, value, isAppend, from)
    \/ \E p \in ProcIds, isAppend \in BOOLEAN, from \in BOOLEAN, partial \in BOOLEAN :
            WriterFail(p, isAppend, from, partial)
    \/ \E p \in ProcIds, timeout \in Timeouts, refresh \in BOOLEAN :
            Stat(p, timeout, refresh)
    \/ \E p \in ProcIds : StatFail(p)
    \/ \E p \in ProcIds : ReadFile(p)
    \/ \E p \in ProcIds : ReadFileFail(p)
    \/ \E p \in ProcIds : Remove(p)
    \/ \E p \in ProcIds : RemoveFail(p)

Spec == Init /\ [][Next]_vars

\* Calls that overlap: a call or a tick may start while another is suspended
\* at an await. The calls are set, of a key no call in flight is writing, and
\* the ticks of the cleaner, without filesystem failures.
InitOverlap ==
    /\ cacheItems = <<>>
    /\ heap = [f \in FileNames |-> NewCache("")]
    /\ currentSize = 0
    /\ fileNameIndex = 0
    /\ disk = [f \in FileNames |-> NoFile]
    /\ cacheDirList = {}
    /\ cleanerTimer = "none"
    /\ live = [dir \in Dirs |-> 0]
    /\ options = [volumeUpLimit |-> upLimit, volumeUpLimitRate |-> 0]
    /\ procs = [p \in ProcIds |-> IdleProc]
    /\ overlap = TRUE
    /\ faults = 0
    /\ written = [k \in Keys |-> <<>>]
    /\ grp = [k \in Keys |-> {}]
    /\ last = NoLast

NextOverlap ==
    \/ \E dir \in Dirs : Construct(dir)
    \/ \E key \in Keys : ~Writing(procs, key) /\ Set(key)
    \/ Cleaner
    \/ \E p \in ProcIds, value \in Values, isAppend \in BOOLEAN :
            Writer(p, value, isAppend, FALSE)
    \/ \E p \in ProcIds, timeout \in Timeouts, refresh \in BOOLEAN :
            Stat(p, timeout, refresh)
    \/ \E p \in ProcIds : Remove(p)

SpecOverlap == InitOverlap /\ [][NextOverlap]_vars

\* An instance constructed with volumeUpLimitRate and no volumeUpLimit; calls
\* and ticks do not overlap; the calls are set, setGroup and delete.
InitRate ==
    /\ cacheItems = <<>>
    /\ heap = [f \in FileNames |-> NewCache("")]
    /\ currentSize = 0
    /\ fileNameIndex = 0
    /\ disk = [f \in FileNames |-> NoFile]
    /\ cacheDirList = {}
    /\ cleanerTimer = "none"
    /\ live = [dir \in Dirs |-> 0]
    /\ options \in {[volumeUpLimit |-> 0, volumeUpLimitRate |-> rate] : rate \in Rates}
    /\ procs = [p \in ProcIds |-> IdleProc]
    /\ overlap = FALSE
    /\ faults = 0
    /\ written = [k \in Keys |-> <<>>]
    /\ grp = [k \in Keys |-> {}]
    /\ last = NoLast

NextRate ==
    \/ \E dir \in Dirs : Construct(dir)
    \/ \E key \in Keys : Set(key)
    \/ \E items \in Batches : SetGroup(items)
    \/ \E key \in Keys : Delete(key)
    \/ RateCleaner
    \/ \E p \in ProcIds, available \in Availables, total \in Totals :
            Probe(p, available, total)
    \/ \E p \in ProcIds : ProbeFail(p)
    \/ \E p \in ProcIds, value \in Values, isAppend \in BOOLEAN :
            Writer(p, value, isAppend, FALSE)
    \/ \E p \in ProcIds, timeout \in Timeouts, refresh \in BOOLEAN :
            Stat(p, timeout, refresh)
    \/ \E p \in ProcIds : Remove(p)
    \/ \E p \in ProcIds : RemoveFail(p)

SpecRate == InitRate /\ [][NextRate]_vars

\* Writes and expirations that overlap: a write or a timer callback may start
\* while another call is suspended at an await. The caller does not start a
\* write of a key that a call in flight is writing; no filesystem call fails
\* but the stat of a file that was removed meanwhile.
NextRace ==
    \/ \E dir \in Dirs : dir \notin cacheDirList /\ Construct(dir)
    \/ \E key \in Keys : ~Writing(procs, key) /\ Set(key)
    \/ \E items \in Batches : Quiescent /\ SetGroup(items)
    \/ Elapse
    \/ \E cache \in FileNames : TimerFire(cache)
    \/ \E p \in ProcIds, value \in Values, isAppend \in BOOLEAN :
            Writer(p, value, isAppend, FALSE)
    \/ \E p \in ProcIds, timeout \in Timeouts, refresh \in BOOLEAN :
            Stat(p, timeout, refresh)
    \/ \E p \in ProcIds : At(p, "write", "stat") /\ ~disk[TopOf(p).cache].ex /\ StatFail(p)
    \/ \E p \in ProcIds : Remove(p)

SpecRace == InitOverlap /\ [][NextRace]_vars

\* Writes and deletions of single keys that overlap: a set, a move, a delete or
\* a timer callback may start while another call is suspended at an await. The
\* caller starts neither a write nor a delete of a key that a call in flight
\* is writing; no filesystem call fails but the move onto a file that is there.
NextRewrite ==
    \/ \E dir \in Dirs : dir \notin cacheDirList /\ Construct(dir)
    \/ \E key \in Keys : ~Writing(procs, key) /\ Set(key)
    \/ \E key \in Keys : ~Writing(procs, key) /\ Move(key)
    \/ \E key \in Keys : ~Writing(procs, key) /\ Delete(key)
    \/ Elapse
    \/ \E cache \in FileNames : TimerFire(cache)
    \/ \E p \in ProcIds, value \in Values, isAppend \in BOOLEAN, from \in BOOLEAN :
            Writer(p, value, isAppend, from)
    \/ \E p \in ProcIds, isAppend \in BOOLEAN, from \in BOOLEAN :
            /\ At(p, "write", "writer") /\ ~WriterCanSucceed(disk[TopOf(p).cache], from)
            /\ WriterFail(p, isAppend, from, FALSE)
    \/ \E p \in ProcIds, timeout \in Timeouts, refresh \in BOOLEAN :
            Stat(p, timeout, refresh)
    \/ \E p \in ProcIds : Remove(p)

SpecRewrite == InitOverlap /\ [][NextRewrite]_vars

\* ------------------------------------------------------------------------
\* Properties
\* ------------------------------------------------------------------------
RECURSIVE Sum(_, _)
Sum(s, n) == IF n = 0 THEN 0 ELSE s[n] + Sum(s, n - 1)

Entries == 1..Len(cacheItems)
Entry(n) == heap[cacheItems[n][2]]
FileSizes == [n \in Entries |-> Entry(n).fileSize]
ArtifactSizes == [n \in Entries |-> Len(disk[cacheItems[n][2]].bytes)]

\* C1: in a quiescent state reached by successful calls only, currentSize is
\* the sum of the fileSize of the entries in the index, and that is the sum of
\* the sizes of the artifacts of the keys present.
C1_SizeConsistent ==
    (Quiescent /\ faults = 0) =>
        /\ currentSize = Sum(FileSizes, Len(cacheItems))
        /\ \A n \in Entries : disk[cacheItems[n][2]].ex
        /\ currentSize = Sum(ArtifactSizes, Len(cacheItems))

\* a key was deleted while another stays, after both were written
C1_Witness ==
    /\ faults = 0
    /\ last.op = "delete" /\ last.res = "ok" /\ last.key = "a"
    /\ Len(cacheItems) = 1
    /\ currentSize = 2

\* C2: after a successful set(key, value) in overwrite mode, and before the key
\* is written again or removed, get(key) resolves with exactly the bytes of
\* value (written[key] is that value; after an append, the bytes then stored).
C2_RoundTrip ==
    (last.op = "get" /\ last.res = "ok" /\ written[last.key] # <<>>) =>
        last.data = written[last.key]

\* get returned the value set for one of two keys present
C2_Witness ==
    /\ last.op = "get" /\ last.res = "ok" /\ last.key = "a"
    /\ written["a"] = <<1>> /\ last.data = <<1>>
    /\ Len(cacheItems) = 2

\* C3: when a delete, an expiration or an eviction of a key written by a
\* successful setGroup completes, no key of that batch is in the index (as long
\* as no key of the batch was written again since the setGroup).
C3_GroupCascade ==
    (last.op \in {"delete", "timer", "cleaner"} /\ last.res = "ok") =>
        last.keys \cap MapKeys(cacheItems) = {}

\* the timer of one member of a group fired and the deletion completed
C3_Witness ==
    /\ last.op = "timer" /\ last.res = "ok"
    /\ last.keys = {"a", "b"}
    /\ cacheItems = <<>>

Armed(key) == {f \in FileNames : heap[f].timeout.st = "armed" /\ heap[f].key = key}

\* C4: an entry whose last successful write used timeout T > 0 (gT), and which
\* since then is neither being written nor can be refreshed by a read (its
\* refresh flag is off), owns exactly one armed timer, due T after that write
\* completed: it is removed once T has elapsed.
C4_Expires ==
    \A n \in Entries :
        (/\ Entry(n).gT > 0
         /\ ~Entry(n).refreshTimeoutWhenGet
         /\ ~Writing(procs, cacheItems[n][1]))
        => /\ Entry(n).timeout.st = "armed"
           /\ Entry(n).timeout.left = Entry(n).gT - Entry(n).gAge
           /\ Cardinality(Armed(cacheItems[n][1])) = 1

\* a call of get or getStream for key starts in this step
ReadStep(key) ==
    \/ last'.op = "getStream" /\ last'.res = "ok" /\ last'.key = key
    \/ \E p \in ProcIds : /\ procs[p].stk = <<>> /\ procs'[p].stk # <<>>
                           /\ procs'[p].op = "get" /\ procs'[p].key = key

ReadRearms ==
    \A key \in Keys :
        (/\ ReadStep(key)
         /\ heap[MapGet(cacheItems, key)].refreshTimeoutWhenGet
         /\ heap[MapGet(cacheItems, key)].timeout.st = "armed")
        => /\ MapHas(cacheItems', key)
           /\ MapGet(cacheItems', key) = MapGet(cacheItems, key)
           /\ heap'[MapGet(cacheItems, key)].timeout =
                  SetTimeout(heap[MapGet(cacheItems, key)].gT)

DueAfterRead ==
    \A n \in Entries :
        (Entry(n).refreshTimeoutWhenGet /\ Entry(n).timeout.st = "armed")
        => Entry(n).timeout.left = Entry(n).gT - Entry(n).gAge

\* C5: for an entry with the refresh flag set and an armed timer of timeout T,
\* every get / getStream re-arms the timer to fire T after that read, the entry
\* staying in the index; the timer is due exactly T after the last read (or
\* write), so the entry is removed T after the last read and not before.
C5_RefreshOnRead == []DueAfterRead /\ [][ReadRearms]_vars

\* a getStream restarted a timer that had run for some time
C5_Witness ==
    /\ last.op = "getStream" /\ last.res = "ok" /\ last.flag
    /\ MapHas(cacheItems, last.key)
    /\ heap[MapGet(cacheItems, last.key)].timeout = SetTimeout(2)
    /\ heap[MapGet(cacheItems, last.key)].gAge = 0

\* a step of a cleaner tick
CleanerStep ==
    \/ last'.op = "cleaner"
    \/ \E p \in ProcIds : procs[p].op = "cleaner" \/ procs'[p].op = "cleaner"

\* a cleaner tick starts in this step
TickStart ==
    /\ \A p \in ProcIds : procs[p].op # "cleaner"
    /\ CleanerStep

\* currentSize <= upLimit * (1 - cleanAmount), cleanAmount in percent
AtTarget(size) == size * 100 <= upLimit * (100 - cleanAmount)

Sweeps ==
    /\ (TickStart /\ currentSize <= upLimit)
       => /\ UNCHANGED <<cacheItems, heap, currentSize, disk, procs>>
          /\ ~last'.flag
    /\ (TickStart /\ currentSize > upLimit)
       => (last'.op = "cleaner" => last'.flag)
    /\ (CleanerStep /\ MapKeys(cacheItems') # MapKeys(cacheItems))
       => /\ ~AtTarget(currentSize')
          /\ cacheItems[1][1] \notin MapKeys(cacheItems')
          /\ MapKeys(cacheItems') \subseteq MapKeys(cacheItems)

Swept ==
    (last.op = "cleaner" /\ last.res = "ok" /\ last.flag)
    => (AtTarget(currentSize) \/ cacheItems = <<>>)

\* C6: a tick of the volumeUpLimit cleaner that finds currentSize <= upLimit
\* deletes nothing; one that finds it above deletes entries starting from the
\* first (oldest) of the index, each while currentSize is above
\* upLimit * (1 - cleanAmount), and ends with currentSize at or below that
\* target or with the index empty.
C6_Cleaner == []Swept /\ [][Sweeps]_vars

\* a tick evicted the oldest entry and stopped at the target with one left
C6_Witness ==
    /\ last.op = "cleaner" /\ last.res = "ok" /\ last.flag
    /\ Len(cacheItems) = 1
    /\ currentSize = 1

\* C7: when empty() has completed, no key is in the index and currentSize is 0,
\* also when the removal of an artifact failed; empty() does not reject.
C7_EmptyResets ==
    last.op = "empty" => (last.res = "ok" /\ cacheItems = <<>> /\ currentSize = 0)

Files(d) == {f \in FileNames : d[f].ex}

InPlace ==
    \A p \in ProcIds :
        /\ (/\ procs[p].stk = <<>> /\ procs'[p].stk # <<>>
            /\ procs'[p].op \in {"set", "move"}
            /\ MapHas(cacheItems, procs'[p].key))
           => /\ fileNameIndex' = fileNameIndex
              /\ procs'[p].stk[1].cache = MapGet(cacheItems, procs'[p].key)
              /\ Files(disk') = Files(disk)
        /\ (/\ At(p, "write", "writer") /\ procs[p].op \in {"set", "move"}
            /\ TopOf(p).existed
            /\ procs'[p].stk # <<>>)
           => /\ Files(disk') = Files(disk)
              /\ procs'[p].stk[1].isAppend
                 => Len(disk'[TopOf(p).cache].bytes) =
                       Len(disk[TopOf(p).cache].bytes) + Len(procs'[p].stk[1].value)
        /\ (/\ At(p, "write", "stat") /\ procs[p].op \in {"set", "move"}
            /\ TopOf(p).existed
            /\ last'.op = procs[p].op /\ last'.res = "ok")
           => /\ MapHas(cacheItems, procs[p].key)
              /\ MapGet(cacheItems, procs[p].key) = TopOf(p).cache
              /\ MapHas(cacheItems', procs[p].key)
              /\ MapGet(cacheItems', procs[p].key) = TopOf(p).cache
              /\ fileNameIndex' = fileNameIndex
              /\ Files(disk') = Files(disk)
              /\ heap'[TopOf(p).cache].fileSize = Len(disk'[TopOf(p).cache].bytes)
              /\ currentSize' - currentSize =
                    heap'[TopOf(p).cache].fileSize - heap[TopOf(p).cache].fileSize

\* C8: a successful set or move on a key already in the index updates the
\* entry in place: the same cache object and fileName, no file name drawn, no
\* second artifact; fileSize becomes the size of the artifact after the write
\* (appending: the size it had plus the bytes appended) and currentSize changes
\* by the new fileSize minus the old one.
C8_InPlace == [][InPlace]_vars

\* a set replaced the two bytes of a key by one
C8_Witness ==
    /\ last.op = "set" /\ last.res = "ok" /\ last.existed
    /\ MapHas(cacheItems, last.key)
    /\ heap[MapGet(cacheItems, last.key)].fileSize = 1
    /\ disk[MapGet(cacheItems, last.key)].bytes = <<1>>
    /\ faults = 0

\* C9: when a set or move on a key already in the index fails, the entry is as
\* it was before the call: in particular a timer armed before the call is
\* still armed.
C9_FailureKeepsEntry ==
    (last.op \in {"set", "move"} /\ last.res = "err" /\ last.existed)
    => /\ MapHas(cacheItems, last.key)
       /\ heap[MapGet(cacheItems, last.key)] = last.prev

WriterFails ==
    \A p \in ProcIds :
        /\ (/\ procs[p].stk = <<>> /\ procs'[p].stk # <<>>
            /\ procs'[p].op \in {"set", "move"})
           => /\ cacheItems' = cacheItems
              /\ currentSize' = currentSize
        /\ (/\ At(p, "write", "writer") /\ procs[p].op \in {"set", "move"}
            /\ procs'[p].stk = <<>>)
           => /\ last'.op = procs[p].op /\ last'.key = procs[p].key
              /\ last'.res = "err"
              /\ cacheItems' = cacheItems
              /\ currentSize' = currentSize
              /\ ~TopOf(p).existed => ~MapHas(cacheItems', procs[p].key)

\* C10: when the writer of a set or move fails, the call rejects, and from the
\* start of the call to its rejection currentSize and the index (its keys and
\* their order) do not change; for a key that was absent no entry is created.
C10_WriterFailure == [][WriterFails]_vars

\* a set of an absent key was rejected before anything was written
C10_Witness ==
    /\ last.op = "set" /\ last.res = "err" /\ ~last.existed
    /\ fileNameIndex = 2 /\ ~disk[1].ex
    /\ cacheItems # <<>>
    /\ ~MapHas(cacheItems, last.key)

Same(key) ==
    /\ MapHas(cacheItems', key) <=> MapHas(cacheItems, key)
    /\ MapHas(cacheItems, key)
       => /\ MapGet(cacheItems', key) = MapGet(cacheItems, key)
          /\ heap'[MapGet(cacheItems, key)] = heap[MapGet(cacheItems, key)]
          /\ disk'[MapGet(cacheItems, key)] = disk[MapGet(cacheItems, key)]

GroupSteps ==
    \A p \in ProcIds :
        (procs'[p] # procs[p] /\ "setGroup" \in {procs[p].op, procs'[p].op})
        => LET g == IF procs[p].op = "setGroup" THEN procs[p].stk[1] ELSE procs'[p].stk[1]
               i == IF procs[p].op = "setGroup" THEN g.i ELSE 0
               ended == procs'[p].stk = <<>>
               i2 == IF ended THEN i ELSE procs'[p].stk[1].i
               Written(j) ==
                   /\ MapHas(cacheItems', g.related[j])
                   /\ heap'[MapGet(cacheItems', g.related[j])].related = g.related
                   /\ written'[g.related[j]] # <<>>
           IN  /\ i2 \in {i, i + 1}
               /\ \A j \in 1..Len(g.related) : (j # i /\ j # i2) => Same(g.related[j])
               /\ (i2 > i /\ i > 0) => (At(p, "write", "stat") /\ Written(i))
               /\ ended
                  => /\ last'.op = "setGroup"
                     /\ \/ /\ last'.res = "ok"
                           /\ i = Len(g.related)
                           /\ \A j \in 1..i : Written(j)
                        \/ /\ last'.res = "err"
                           /\ cacheItems' = cacheItems
                           /\ currentSize' = currentSize
                           /\ \A j \in (i + 1)..Len(g.related) : Same(g.related[j])
                           /\ \A j \in 1..(i - 1) : Same(g.related[j]) /\ Written(j)

\* C12: when item i of setGroup(items) fails, setGroup rejects; no step of the
\* call changes an item other than the one being written, so no item after i
\* is written or changed; the call goes on to the next item only when the
\* current one is written, and the items before i stay in the index as
\* written, each with related naming the keys of the whole batch.
C12_GroupFailure == [][GroupSteps]_vars

\* the second item of a setGroup failed and the first stays, with its related
C12_Witness ==
    /\ last.op = "setGroup" /\ last.res = "err"
    /\ MapKeys(cacheItems) = {"a"}
    /\ heap[MapGet(cacheItems, "a")].related = <<"a", "b">>
    /\ written["a"] # <<>>

Untouched == UNCHANGED <<cacheItems, heap, currentSize, fileNameIndex, disk>>

NoEffect ==
    /\ last'.op = "has" => Untouched
    /\ last'.res = "absent" => Untouched
    /\ (last'.op = "delete" /\ procs' = procs /\ ~MapHas(cacheItems, last'.key))
       => Untouched
    /\ \A key \in Keys :
          ReadStep(key)
          => /\ MapKeys(cacheItems') = MapKeys(cacheItems)
             /\ ~heap[MapGet(cacheItems, key)].refreshTimeoutWhenGet => Untouched
    /\ \A p \in ProcIds :
          (At(p, "get", "readFile") /\ procs'[p].stk = <<>>)
          => /\ MapKeys(cacheItems') = MapKeys(cacheItems)
             /\ ~heap[TopOf(p).cache].refreshTimeoutWhenGet => Untouched

\* C13: has(key), get / getStream / delete of an absent key, and get /
\* getStream of an entry whose refresh flag is off leave the index (keys,
\* order, cache objects with their timers), currentSize, the file-name counter
\* and the artifacts unchanged; no read adds or removes a key.
C13_ReadsNoEffect == [][NoEffect]_vars

\* get read the older of two entries, refresh flag off, its timer running
C13_Witness ==
    /\ last.op = "get" /\ last.res = "ok" /\ last.key = "a"
    /\ Len(cacheItems) = 2 /\ cacheItems[1][1] = "a"
    /\ ~Entry(1).refreshTimeoutWhenGet
    /\ Entry(1).timeout.st = "armed" /\ Entry(1).timeout.left = 1

\* destroy() was called on the instance
Destroyed == "d" \in cacheDirList /\ live["d"] = 0

DestroyStops ==
    /\ TickStart => ~Destroyed
    /\ (~Destroyed /\ Destroyed') => cleanerTimer' # "active"

Emptied ==
    (last.op = "destroy" /\ \A key \in Keys : ~Writing(procs, key))
    => /\ last.res = "ok"
       /\ cacheItems = <<>>
       /\ \A f \in FileNames : heap[f].timeout.st # "armed"

\* C14: destroy() cancels the cleaner's interval in the step in which it is
\* called, before the index is emptied: no cleaner tick begins after destroy()
\* was called; when destroy() has completed with no write in flight the index
\* is empty and no expiration timer is armed.
C14_Destroy == []Emptied /\ [][DestroyStops]_vars

\* destroy() completed on an instance that held two entries
C14_Witness ==
    /\ last.op = "destroy" /\ last.res = "ok"
    /\ fileNameIndex = 2 /\ currentSize = 0 /\ faults = 0
    /\ cleanerTimer = "cleared"

\* a constructor call on dir has just returned or thrown
Constructed(dir) == last'.op = "new" /\ last'.key = dir

Refused(dir) ==
    (dir \in cacheDirList /\ Constructed(dir))
    => /\ last'.res = "err"
       /\ UNCHANGED <<cacheDirList, disk, cacheItems, heap, currentSize, fileNameIndex,
                      cleanerTimer, live>>

\* C15: a constructor call on a directory that is in the registry throws
\* before the directory is emptied: registry, directory content, index and
\* entries are unchanged by it, and no second instance comes to exist, so at
\* most one instance per directory is live.
C15_Registry ==
    /\ [](\A dir \in Dirs : live[dir] <= 1)
    /\ [][\A dir \in Dirs : Refused(dir)]_vars

\* a second constructor call on the directory threw while the first instance
\* held an entry with its artifact
C15_Witness ==
    /\ last.op = "new" /\ last.res = "err"
    /\ live["d"] = 1
    /\ cacheItems # <<>>
    /\ Files(disk) # {}

NeverExpires ==
    \A n \in Entries :
        (Entry(n).gT = 0 /\ ~Writing(procs, cacheItems[n][1]))
        => Entry(n).timeout.st # "armed"

ReadKeeps ==
    \A key \in Keys :
        (ReadStep(key) /\ heap[MapGet(cacheItems, key)].gT = 0)
        => /\ cacheItems' = cacheItems
           /\ heap'[MapGet(cacheItems, key)].timeout.st # "armed"

\* C16: an entry whose last successful write used timeout 0 (gT = 0) has no
\* armed timer, whatever the earlier writes of the key used, and a get /
\* getStream of it arms no timer and leaves the order of the index as it was.
C16_NeverExpires == []NeverExpires /\ [][ReadKeeps]_vars

\* C17: in every reachable state, those in which a delete, an expiration, an
\* eviction or an empty is suspended at an await included, currentSize is the
\* sum of fileSize over the entries in the index (stated for the runs in which
\* no filesystem operation has failed).
C17_SizeAlways == faults = 0 => currentSize = Sum(FileSizes, Len(cacheItems))

\* proc p runs a delete(key) call, of the facade or of an expiration timer
DeleteCall(p) == procs[p].op \in {"delete", "timer"}

\* the recursion of delete: its frames are of distinct keys, none of them in
\* the index any more
Nesting ==
    \A p \in ProcIds :
        DeleteCall(p) =>
            /\ Len(procs[p].stk) <= Cardinality(Keys)
            /\ \A i, j \in 1..Len(procs[p].stk) :
                  /\ procs[p].stk[i].kind = "delete"
                  /\ procs[p].stk[i].key \notin MapKeys(cacheItems)
                  /\ (i # j => procs[p].stk[i].key # procs[p].stk[j].key)

\* a removal of the call resolves: that artifact, which was there, goes and no
\* other, the size drops by the fileSize of its object, and the entries left
\* plus the deletes suspended are one fewer
RemovesOne ==
    \A p \in ProcIds :
        (DeleteCall(p) /\ procs'[p] # procs[p] /\ faults = 0 /\ faults' = 0)
        => LET f == TopOf(p) IN
           /\ disk[f.cache].ex /\ ~disk'[f.cache].ex
           /\ \A g \in FileNames \ {f.cache} : disk'[g].ex = disk[g].ex
           /\ currentSize' = currentSize - heap[f.cache].fileSize
           /\ Len(cacheItems') + Len(procs'[p].stk)
                  = Len(cacheItems) + Len(procs[p].stk) - 1

AllGone ==
    (last.op \in {"delete", "timer"} /\ last.res = "ok" /\ faults = 0)
    => /\ last.keys \cap MapKeys(cacheItems) = {}
       /\ Files(disk) = {cacheItems[n][2] : n \in Entries}
       /\ currentSize = Sum(FileSizes, Len(cacheItems))

\* C18: a delete of a member of a symmetric group terminates: the nested
\* deletes are of distinct keys already out of the index, and each removal
\* that resolves lowers the number of entries plus suspended deletes by one.
\* Without filesystem failure each removal takes away one artifact that was
\* there and decrements currentSize by the fileSize of that member, and when
\* the call has completed no member is in the index, the artifacts left are
\* those of the entries left, and currentSize is the sum of their fileSize.
C18_GroupDelete == []Nesting /\ []AllGone /\ [][RemovesOne]_vars

\* delete(key) of a member of a group of two completed without failure
C18_Witness ==
    /\ last.op = "delete" /\ last.res = "ok" /\ faults = 0
    /\ last.keys = {"a", "b"}
    /\ cacheItems = <<>>
    /\ currentSize = 0
    /\ Files(disk) = {}

\* a cleaner tick takes an entry out of the index in this step
Evicts == CleanerStep /\ MapKeys(cacheItems) \ MapKeys(cacheItems') # {}

\* C19: the cleaner does not over-evict. With entries that have no related
\* keys, a tick takes an entry out of the index only when the fileSize of the
\* entries in the index, that entry included, is above the target
\* upLimit * (1 - cleanAmount); ticks may start while the sweep of an earlier
\* tick is suspended at its fs.remove.
C19_NoOverEvict == [][Evicts => ~AtTarget(Sum(FileSizes, Len(cacheItems)))]_vars

\* C20: a tick of the cleaner in which a removal failed ("err": the failure
\* was logged) went on with the following entries: it has ended with
\* currentSize at or below the target or with the index empty, and the
\* interval is still running.
C20_SweepGoesOn ==
    (last.op = "cleaner" /\ last.res = "err")
    => /\ cleanerTimer = "active"
       /\ AtTarget(currentSize) \/ cacheItems = <<>>

\* the callback of an expiration timer starts or goes on in this step, as proc p
TimerStep(p) ==
    /\ procs'[p] # procs[p]
    /\ procs[p].op = "timer" \/ procs'[p].op = "timer"

\* the artifacts of the writes of key in flight
WriteFiles(key) ==
    {f \in FileNames : \E p \in ProcIds : \E n \in 1..Len(procs[p].stk) :
        /\ procs[p].stk[n].kind = "write"
        /\ procs[p].stk[n].key = key
        /\ procs[p].stk[n].cache = f}

KeptDuringWrite ==
    \A key \in Keys, p \in ProcIds :
        (Writing(procs, key) /\ TimerStep(p))
        => /\ MapHas(cacheItems, key) => MapHas(cacheItems', key)
           /\ \A f \in WriteFiles(key) : disk[f].ex => disk'[f].ex

\* C21: while a write of key k is in flight, no step of an expiration timer's
\* callback takes k out of the index or removes the artifact the write is
\* writing: not the timer of k, and not the timer of another key whose
\* related keys contain k.
C21_WriteProtected == [][KeptDuringWrite]_vars

\* the file names whose removal is suspended in a deletion of key
Removing(key) ==
    {f \in FileNames : \E p \in ProcIds : \E n \in 1..Len(procs[p].stk) :
        /\ procs[p].stk[n].kind = "delete"
        /\ procs[p].stk[n].key = key
        /\ procs[p].stk[n].cache = f}

\* set / move of a key is called while a deletion of it is suspended: the
\* write draws a name that was never drawn (unless an earlier such write has
\* put the key back, whose name it then uses)
DrawsFresh ==
    \A key \in Keys, p \in ProcIds :
        (/\ Removing(key) # {}
         /\ Idle(p) /\ ~Idle(p)'
         /\ procs'[p].op \in {"set", "move"} /\ procs'[p].key = key)
        => /\ procs'[p].stk[1].cache \notin Removing(key)
           /\ ~MapHas(cacheItems, key)
                => /\ procs'[p].stk[1].cache = fileNameIndex
                   /\ fileNameIndex' = fileNameIndex + 1
           /\ \A f \in Removing(key) : disk'[f] = disk[f] /\ heap'[f] = heap[f]

\* the write completes, before or after the deletion: the key is in the
\* index with the artifact the write wrote; the deletion completes, before or
\* after the write: the index is as it was
BothComplete ==
    \A p \in ProcIds :
        /\ (At(p, "write", "stat") /\ Idle(p)' /\ last'.res = "ok")
           => /\ MapHas(cacheItems', procs[p].key)
              /\ MapGet(cacheItems', procs[p].key) = TopOf(p).cache
              /\ TopOf(p).cache \notin Removing(procs[p].key)
              /\ disk'[TopOf(p).cache] = disk[TopOf(p).cache]
        /\ (At(p, "delete", "remove") /\ procs'[p] # procs[p])
           => /\ cacheItems' = cacheItems
              /\ \A key \in MapKeys(cacheItems) :
                    disk'[MapGet(cacheItems, key)] = disk[MapGet(cacheItems, key)]

Settled ==
    Quiescent
    => /\ currentSize = Sum(FileSizes, Len(cacheItems))
       /\ \A n \in Entries :
             /\ disk[cacheItems[n][2]].ex
             /\ written[cacheItems[n][1]] # <<>>  \* (no failed write since)
                => disk[cacheItems[n][2]].bytes = written[cacheItems[n][1]]
             /\ Entry(n).fileSize = Len(disk[cacheItems[n][2]].bytes)

NamesInUse ==
    {cacheItems[n][2] : n \in Entries} \cup
    {f \in FileNames : \E p \in ProcIds : \E n \in 1..Len(procs[p].stk) :
        procs[p].stk[n].kind \in {"write", "delete", "empty", "get"}
        /\ procs[p].stk[n].cache = f}

DistinctNames ==
    /\ \A i, j \in Entries : i # j => cacheItems[i][2] # cacheItems[j][2]
    /\ \A f \in NamesInUse : f < fileNameIndex

\* a write of a key that is not in the index begins in this step, as proc p
Creates(p) ==
    /\ ~Idle(p)'
    /\ procs'[p].stk[Len(procs'[p].stk)].kind = "write"
    /\ procs'[p].stk[Len(procs'[p].stk)].pc = "writer"
    /\ ~procs'[p].stk[Len(procs'[p].stk)].existed
    /\ Idle(p) \/ TopOf(p).pc # "writer"

Counts ==
    /\ fileNameIndex' >= fileNameIndex
    /\ \A p \in ProcIds :
          Creates(p) => /\ procs'[p].stk[Len(procs'[p].stk)].cache = fileNameIndex
                        /\ fileNameIndex' = fileNameIndex + 1

\* C23: _fileNameIndex never decreases, also not when a write fails; every
\* file name in use is below it and no two entries of the index have the same
\* one; a write that creates an entry takes the counter's value as its file
\* name and increments the counter, so the name is above every name drawn
\* before, those of deleted entries and of failed writes included.
C23_FileNames == []DistinctNames /\ [][Counts]_vars

\* a set created an entry for a key after an earlier name had been drawn for a
\* write that failed or for an entry that a failed removal left behind
C23_Witness ==
    /\ last.op = "set" /\ last.res = "ok" /\ ~last.existed
    /\ cacheItems = <<<<last.key, 1>>>>
    /\ fileNameIndex = 2
    /\ faults = 1

\* the iteration order of the index
KeyOrder(items) == [n \in 1..Len(items) |-> items[n][1]]
Without(keys, key) == SelectSeq(keys, LAMBDA k : k # key)
MovedToEnd(key) ==
    KeyOrder(cacheItems') = Append(Without(KeyOrder(cacheItems), key), key)

\* the steps that make a key the freshest: a write of it succeeds, or a read
\* of it restarts its timer; every other step leaves the keys that stay in
\* the order they had
Freshness ==
    /\ \A p \in ProcIds :
          (At(p, "write", "stat") /\ procs'[p] # procs[p] /\ faults' = faults)
          => MovedToEnd(TopOf(p).key)
    /\ \A key \in Keys :
          ReadStep(key)
          => IF /\ heap[MapGet(cacheItems, key)].refreshTimeoutWhenGet
                /\ heap[MapGet(cacheItems, key)].timeout.st = "armed"
             THEN MovedToEnd(key)
             ELSE KeyOrder(cacheItems') = KeyOrder(cacheItems)
    /\ (\A p \in ProcIds : ~At(p, "write", "stat")) /\ (\A key \in Keys : ~ReadStep(key))
       => \E gone \in SUBSET Keys :
             KeyOrder(cacheItems') =
                 SelectSeq(KeyOrder(cacheItems), LAMBDA k : k \notin gone)
    /\ (CleanerStep /\ MapKeys(cacheItems') # MapKeys(cacheItems))
       => cacheItems[1][1] \notin MapKeys(cacheItems')

\* C24: with calls that do not overlap, the order of the index is the order
\* of the last successful write or timer-restarting read of each key in it: a
\* successful set / move puts its key at the end, a read that restarts the
\* timer of its key puts it at the end, no other step changes the order of
\* the keys that stay, and a sweep of the cleaner removes the first key.
C24_FreshnessOrder == [][Freshness]_vars

\* min(upLimitRate, 1) of the instance, in percent
CutRate == IF options.volumeUpLimitRate < 100 THEN options.volumeUpLimitRate ELSE 100

\* the probe of a tick of the rate cleaner returns in this step, to proc p
ProbeStep(p) == At(p, "rate", "probe") /\ procs'[p] # procs[p]

\* what the probe reported: <<available, total>>
Usage(p) == IF Idle(p)' THEN last'.data ELSE procs'[p].stk[1].value

Headroom(p) == Usage(p)[1] * 100 >= Usage(p)[2] * (100 - CutRate)

\* currentSize - total * min(upLimitRate, 1) * cleanAmount, times 10000
Target(p) == currentSize * 10000 - Usage(p)[2] * CutRate * cleanAmount

RateTick ==
    \A p \in ProcIds :
        /\ (ProbeStep(p) /\ last'.res = "err") => (Untouched /\ Idle(p)')
        /\ (ProbeStep(p) /\ last'.res # "err" /\ Headroom(p)) => (Untouched /\ Idle(p)')
        /\ (ProbeStep(p) /\ last'.res # "err" /\ ~Headroom(p))
           => IF Idle(p)'
              THEN cacheItems = <<>> /\ Untouched
              ELSE /\ procs'[p].stk[1].downTo = Target(p)
                   /\ currentSize * 10000 > Target(p)
                   /\ cacheItems[1][1] \notin MapKeys(cacheItems')
        /\ (/\ ~Idle(p) /\ procs[p].stk[1].kind = "rate" /\ procs[p].stk[1].pc = "sweep"
            /\ procs'[p] # procs[p] /\ faults' = faults)
           => /\ ~Idle(p)' => procs'[p].stk[1].downTo = procs[p].stk[1].downTo
              /\ MapKeys(cacheItems') # MapKeys(cacheItems)
                    => /\ currentSize' * 10000 > procs[p].stk[1].downTo
                       /\ cacheItems[1][1] \notin MapKeys(cacheItems')
              /\ Idle(p)'
                    => \/ currentSize' * 10000 <= procs[p].stk[1].downTo
                       \/ cacheItems' = <<>>

\* C25: a tick of the volumeUpLimitRate cleaner changes nothing when the probe
\* fails or reports available / total >= 1 - min(upLimitRate, 1). Otherwise
\* it sets downTo = currentSize - total * min(upLimitRate, 1) * cleanAmount
\* from the values it then has, keeps that downTo for the whole sweep, and
\* removes the first entry of the index each time currentSize is above
\* downTo, until currentSize <= downTo or the index is empty.
C25_RateCleaner == [][RateTick]_vars

\* a tick removed the older of two entries and stopped at its downTo
C25_Witness ==
    /\ last.op = "rate" /\ last.res = "ok" /\ last.data = <<>>
    /\ fileNameIndex = 2 /\ faults = 0
    /\ Len(cacheItems) = 1
    /\ currentSize = heap[cacheItems[1][2]].fileSize

\* C26: the registry holds the directories of the live instances and no
\* other: a directory whose instance has completed destroy() is not in it,
\* and a constructor call throws only for a directory that has a live
\* instance.
C26_RegistryReleased ==
    /\ \A dir \in Dirs :
          (dir \in cacheDirList /\ live[dir] = 0)
          => \E p \in ProcIds : procs[p].op = "destroy"
    /\ (last.op = "new" /\ last.res = "err") => live[last.key] > 0

\* the keys a step takes out of the index
Leaving == MapKeys(cacheItems) \ MapKeys(cacheItems')

\* key is in the index and its last write was a plain set or move
\* (line 122 stored no related keys)
Ungrouped(key) ==
    MapHas(cacheItems, key) /\ heap[MapGet(cacheItems, key)].related = <<>>

\* (in the runs in which no filesystem operation has failed, so that every
\* setGroup before the step wrote all its items)
AloneInLeaving ==
    faults = 0 => \A key \in Leaving : Ungrouped(key) => Leaving = {key}

\* C27: a key whose last write was a plain set or move belongs to no group,
\* also when an earlier setGroup wrote it: a step that takes it out of the
\* index (a delete, an expiration, an eviction) takes out no other key, so
\* deleting it deletes no other key and deleting another key leaves it in
\* the index.
C27_RewriteLeavesGroup == [][AloneInLeaving]_vars

\* the deletes of the call of proc p that await a nested delete: the members
\* taken out of the index whose own removal has not been attempted
Awaiting(p) == SubSeq(procs[p].stk, 1, Len(procs[p].stk) - 1)

\* a removal of the call rejects and the call is over: the members of the
\* group are out of the index, and the members whose removal did not fail
\* have lost their artifact and their fileSize is off currentSize
FailsTogether ==
    \A p \in ProcIds :
        (DeleteCall(p) /\ procs'[p].stk = <<>> /\ last'.res = "err")
        => LET sizes == [n \in 1..Len(Awaiting(p)) |->
                            heap[Awaiting(p)[n].cache].fileSize]
           IN  /\ last'.keys \cap MapKeys(cacheItems') = {}
               /\ \A n \in 1..Len(Awaiting(p)) : ~disk'[Awaiting(p)[n].cache].ex
               /\ currentSize' = currentSize - Sum(sizes, Len(sizes))

\* C28: when delete(k) of a group member rejects because the removal of the
\* artifact of one member failed, no member of the group is left in the
\* index, the artifact of every other member has been removed and its
\* fileSize has been subtracted from currentSize.
C28_GroupFailure == [][FailsTogether]_vars

\* the related keys stored with the entry of key
RelatedKeys(key) ==
    LET related == heap[MapGet(cacheItems, key)].related
    IN  {related[n] : n \in 1..Len(related)}

\* C29 (as stated): when a setGroup has completed successfully, the related
\* keys of every member of the batch are the other keys of the batch, its own
\* key not among them.
C29_RelatedOthers ==
    (last.op = "setGroup" /\ last.res = "ok")
    => \A key \in MapKeys(cacheItems) :
          grp[key] # {} => RelatedKeys(key) = grp[key] \ {key}

\* C29 (amended): when a setGroup has completed successfully, the related
\* keys of every member of the batch are all the keys of the batch, its own
\* key among them.
C29_RelatedAll ==
    (last.op = "setGroup" /\ last.res = "ok")
    => \A key \in MapKeys(cacheItems) :
          grp[key] # {} => RelatedKeys(key) = grp[key]

\* setGroup of a and b has completed and both entries name a and b
C29_Witness ==
    /\ last.op = "setGroup" /\ last.res = "ok"
    /\ MapKeys(cacheItems) = {"a", "b"}
    /\ grp["a"] = {"a", "b"} /\ grp["b"] = {"a", "b"}
    /\ RelatedKeys("a") = {"a", "b"} /\ RelatedKeys("b") = {"a", "b"}

====
